---- MODULE Spec2Model ----
(***************************************************************************)
(* State-machine model of samsungctl/remote_legacy.py (class RemoteLegacy):*)
(* the connection manager (open, close, control, power, _connect) and the  *)
(* response loop worker, with the caller threads and the worker threads    *)
(* interleaved statement by statement.                                     *)
(***************************************************************************)
EXTENDS Integers, Sequences, FiniteSets, TLC

\* ------------------------------------------------------------------ bounds
\* Number of sockets that connect() can hand out in one behaviour.
MaxSock == 2
\* Number of pending-approval frames the TV sends during one handshake.
MaxPending == 2
\* Number of calls the caller threads make in one behaviour.
MaxCalls == 3

\* --------------------------------------------------------------- constants
\* Python's None for the socket handle and the worker reference.
None == 0

\* The threads that call into the object: two user threads and the thread of
\* the discovery service.
Callers == {"t1", "t2"}

Socks == 1..MaxSock

\* Response payloads the TV can send (bytes as integers).
Granted == <<100, 0, 1, 0>>
DeniedFrame == <<100, 0, 0, 0>>
PendingFrame == <<10, 0, 2, 0>>
CancelledFrame == <<101, 0>>
AckFrame == <<0, 0, 0, 0>>
EmptyFrame == << >>
UnknownFrame == <<100, 0, 1>>

Payloads ==
    {Granted, DeniedFrame, PendingFrame, CancelledFrame, AckFrame, EmptyFrame,
     UnknownFrame}

\* What the four recv() calls of one _read_response produce: a response
\* payload, or a transport error raised by one of them.
Frame(p) == [ok |-> TRUE, response |-> p]
TransportError == [ok |-> FALSE, response |-> EmptyFrame]

\* The frames that end a run of pending-approval frames.
Terminals == {Frame(p) : p \in Payloads \ {PendingFrame}} \cup {TransportError}

\* What the TV sends on a socket from one read on: n pending-approval frames,
\* a terminal frame, and a frame after it.
Pendings(n) == [i \in 1..n |-> Frame(PendingFrame)]
Scripts ==
    {Pendings(n) \o <<t, Frame(Granted)>> : n \in 0..MaxPending, t \in Terminals}

VARIABLES
    sock,                  \* self.sock: None or a socket
    thread,                \* self._thread: None or a worker
    loop_event,            \* self._loop_event is set
    receive_lock,          \* holder of self._receive_lock, or "free"
    receive_event,         \* self._receive_event is set
    registered_callbacks,  \* self._registered_callbacks: the registering callers
    paired,                \* self.config.paired
    sockState,             \* each socket: "fresh", "open", "shutdown", "closed"
    worker,                \* each worker thread: its position, the socket it reads
                           \* and why it left the loop
    call,                  \* each caller thread: the call in progress and its locals
    calls                  \* the number of calls made so far

vars ==
    <<sock, thread, loop_event, receive_lock, receive_event,
      registered_callbacks, paired, sockState, worker, call, calls>>

\* ------------------------------------------------------------------ helpers
\* The if/elif chain of _read_response over the response payload.
Classify(response) ==
    IF Len(response) = 0 THEN "Closed"
    ELSE IF response = Granted THEN "Accepted"
    ELSE IF response = DeniedFrame THEN "Denied"
    ELSE IF response[1] = 10 THEN "Waiting"
    ELSE IF response[1] = 101 THEN "Cancelled"
    ELSE IF response = AckFrame THEN "ControlAcknowledged"
    ELSE "Unhandled"

\* One pass through the body of _read_response for one received frame: the
\* bare except turns every transport error into a False result ("Error").
ReadOutcome(o) == IF o.ok THEN Classify(o.response) ELSE "Error"

\* Mutant of ReadResponse: a pending-approval frame is taken for the answer,
\* without reading on.
ReadResponseNoRetry(frames, i) ==
    LET k == ReadOutcome(frames[i]) IN
    [k |-> IF k = "Waiting" THEN "Accepted" ELSE k, n |-> i]

\* _read_response(sock) on the frames the socket delivers, from frame i on: a
\* pending-approval frame makes it call itself for the next frame of the same
\* socket.  k is the classification it ends with, n the frames it has read.
RECURSIVE ReadResponse(_, _)
ReadResponse(frames, i) ==
    LET k == ReadOutcome(frames[i]) IN
    IF k = "Waiting" /\ i < Len(frames)
    THEN ReadResponse(frames, i + 1)
    ELSE [k |-> k, n |-> i]

\* The number of pending-approval frames a script starts with.
RECURSIVE LeadingPending(_)
LeadingPending(frames) ==
    IF frames # << >> /\ Head(frames) = Frame(PendingFrame)
    THEN 1 + LeadingPending(Tail(frames))
    ELSE 0

\* list.remove(x): drops the first occurrence of x.
RECURSIVE Remove(_, _)
Remove(s, x) ==
    IF s = << >> THEN s
    ELSE IF Head(s) = x THEN Tail(s)
    ELSE <<Head(s)>> \o Remove(Tail(s), x)

\* A caller thread that is in no call.  op/pc: the call and the statement it
\* is at; s: the local sock of open(); term: how the handshake read ended;
\* waited: pending-approval frames came first; unread: frames of the TV's
\* answer, up to the terminal one, that open() did not read; res: what the
\* last call returned or raised; paired0: config.paired when open() was
\* entered; sent: control frames this call has sent; stopped0: no worker was
\* running when _connect(config, True) was entered; early: when control()
\* sent its frame a worker had read an acknowledgement and not yet called the
\* callback for it.
IdleCall ==
    [op |-> "idle", pc |-> "done", s |-> None, term |-> "none",
     waited |-> FALSE, unread |-> 0, res |-> "none", paired0 |-> FALSE,
     sent |-> 0, stopped0 |-> FALSE, early |-> FALSE]

Init ==
    /\ sock = None
    /\ thread = None
    /\ loop_event = FALSE
    /\ receive_lock = "free"
    /\ receive_event = FALSE
    /\ registered_callbacks = << >>
    /\ paired \in BOOLEAN
    /\ sockState = [s \in Socks |-> "fresh"]
    /\ worker = [w \in Socks |-> [pc |-> "none", rs |-> None, why |-> "none"]]
    /\ call = [c \in Callers |-> IdleCall]
    /\ calls = 0

\* What recv on socket s delivers: on None, and on a socket this side has
\* closed, the recv raises, which ends in the bare except.
Receivable(s) ==
    IF s # None /\ sockState[s] = "open" THEN Scripts ELSE {<<TransportError>>}

\* -------------------------------------------------------- the response loop
\* Worker w is the Thread object made by the open() call that created socket w.
SetWorker(w, pc) == worker' = [worker EXCEPT ![w].pc = pc, ![w].rs = None]

\* loop(): while not self._loop_event.isSet()
LoopWhile(w) ==
    /\ worker[w].pc = "while"
    /\ worker' = [worker EXCEPT ![w].pc = IF loop_event THEN "exit" ELSE "call",
                                ![w].why = IF loop_event THEN "flag" ELSE @]
    /\ UNCHANGED <<calls, sock, thread, loop_event, receive_lock, receive_event,
                   registered_callbacks, paired, sockState, call>>

\* loop(): self._read_response(self.sock) evaluates self.sock and enters recv.
LoopCall(w) ==
    /\ worker[w].pc = "call"
    /\ worker' = [worker EXCEPT ![w].pc = "recv", ![w].rs = sock]
    /\ UNCHANGED <<calls, sock, thread, loop_event, receive_lock, receive_event,
                   registered_callbacks, paired, sockState, call>>

\* Mutant of LoopAfter: an empty response is taken for a True result, so that
\* the loop reads on.
LoopAfterClosedContinues(k) ==
    CASE k = "Error" -> "exit"
      [] k \in {"Accepted", "Closed"} -> "while"
      [] k \in {"Denied", "Cancelled", "Unhandled"} -> "crashed"
      [] k = "ControlAcknowledged" ->
            IF registered_callbacks # << >> THEN "callback" ELSE "while"
      [] OTHER -> "recv"

\* Where loop() goes when _read_response ends with classification k: a False
\* result breaks, a True result continues, AccessDenied and UnhandledResponse
\* leave loop() and end the thread.
LoopAfter(k) ==
    CASE k \in {"Error", "Closed"} -> "exit"
      [] k = "Accepted" -> "while"
      [] k \in {"Denied", "Cancelled", "Unhandled"} -> "crashed"
      [] k = "ControlAcknowledged" ->
            IF registered_callbacks # << >> THEN "callback" ELSE "while"
      [] OTHER -> "recv"

\* The results of _read_response that are not True: a False result or an
\* exception.
Stops == {"Error", "Closed", "Denied", "Cancelled", "Unhandled"}

\* _read_response in the worker: frames are received and classified until one
\* is not a pending-approval frame.
LoopRecv(w) ==
    /\ worker[w].pc = "recv"
    /\ \E frames \in Receivable(worker[w].rs) :
          LET k == ReadResponse(frames, 1).k IN
          /\ worker' = [worker EXCEPT ![w] =
                           [pc |-> LoopAfter(k), rs |-> None,
                            why |-> IF k \in Stops THEN k ELSE "none"]]
          /\ paired' = IF k = "Accepted" THEN TRUE ELSE paired
    /\ UNCHANGED <<calls, sock, thread, loop_event, receive_lock, receive_event,
                   registered_callbacks, sockState, call>>

\* _read_response: self._registered_callbacks[0]() ; an IndexError ends in the
\* bare except, which makes the loop break.
LoopCallback(w) ==
    /\ worker[w].pc = "callback"
    /\ IF registered_callbacks = << >>
       THEN /\ worker' = [worker EXCEPT ![w].pc = "exit", ![w].why = "Error"]
            /\ UNCHANGED receive_event
       ELSE SetWorker(w, "while") /\ receive_event' = TRUE
    /\ UNCHANGED <<calls, sock, thread, loop_event, receive_lock,
                   registered_callbacks, paired, sockState, call>>

\* loop(): if self.sock is not None: self.sock.close() ; self.sock = None
LoopExit(w) ==
    /\ worker[w].pc = "exit"
    /\ SetWorker(w, "clear")
    /\ sock' = None
    /\ sockState' = IF sock # None THEN [sockState EXCEPT ![sock] = "closed"]
                    ELSE sockState
    /\ UNCHANGED <<calls, thread, loop_event, receive_lock, receive_event,
                   registered_callbacks, paired, call>>

\* loop(): self._thread = None ; self._loop_event.clear() ; the thread ends.
LoopClear(w) ==
    /\ worker[w].pc = "clear"
    /\ thread' = None
    /\ loop_event' = FALSE
    /\ SetWorker(w, "finished")
    /\ UNCHANGED <<calls, sock, receive_lock, receive_event, registered_callbacks,
                   paired, sockState, call>>

\* ------------------------------------------------------- the caller threads
\* The workers that are running loop().
Running ==
    {w \in Socks : worker[w].pc \in {"while", "call", "recv", "callback",
                                      "exit", "clear"}}

\* A caller that is in no call starts one; the call's locals are fresh.
Enter(c, op, pc) ==
    call' = [call EXCEPT ![c] =
                [IdleCall EXCEPT !.op = op, !.pc = pc, !.paired0 = paired,
                                 !.stopped0 = (op = "connect_on" /\ Running = {})]]

Goto(c, pc) == call' = [call EXCEPT ![c].pc = pc]

\* The call returns r or raises r; its local socket goes out of scope.
Finish(c, r) ==
    call' = [call EXCEPT ![c].pc = "done", ![c].res = r, ![c].s = None]

Idle(c) == call[c].pc = "done"

\* ------------------------------------------------------------------ open()
\* open(): if self.sock is not None: return
OpenCheck(c) ==
    /\ call[c].pc = "open_check"
    /\ IF sock # None THEN Finish(c, "None") ELSE Goto(c, "open_connect")
    /\ UNCHANGED <<calls, sock, thread, loop_event, receive_lock, receive_event,
                   registered_callbacks, paired, sockState, worker>>

\* The socket socket.socket() returns: one that was never used.
FreshSock == CHOOSE s \in Socks :
                /\ sockState[s] = "fresh"
                /\ \A r \in Socks : sockState[r] = "fresh" => s <= r

\* open(): except socket.error: raise RuntimeError unless config.paired, else
\* self.sock = None ; return False
OpenExcept(c, error) ==
    /\ call' = [call EXCEPT ![c].pc = "done", ![c].term = error, ![c].s = None,
                            ![c].res = IF paired THEN "False" ELSE "RuntimeError"]
    /\ sock' = IF paired THEN None ELSE sock
    /\ UNCHANGED <<calls, paired, sockState>>

\* Mutant of OpenAfter: the access-granted response takes the else branch.
OpenAfterGrantedDropped(k) ==
    CASE k \in {"Error", "Closed", "Accepted"} -> "open_else"
      [] k \in {"Denied", "Cancelled"} -> "AccessDenied"
      [] k = "Unhandled" -> "UnhandledResponse"
      [] k = "ControlAcknowledged" ->
            IF registered_callbacks # << >> THEN "open_callback" ELSE "open_store"

\* Mutant of OpenAfter: the access-denied response is taken for a True one.
OpenAfterDeniedStored(k) ==
    CASE k \in {"Error", "Closed"} -> "open_else"
      [] k \in {"Accepted", "Denied"} -> "open_store"
      [] k = "Cancelled" -> "AccessDenied"
      [] k = "Unhandled" -> "UnhandledResponse"
      [] k = "ControlAcknowledged" ->
            IF registered_callbacks # << >> THEN "open_callback" ELSE "open_store"

\* Where open() goes when _read_response(sock, True) ends with classification
\* k: a True response stores the socket, a False one takes the else branch,
\* AccessDenied and UnhandledResponse leave open().
OpenAfter(k) ==
    CASE k \in {"Error", "Closed"} -> "open_else"
      [] k = "Accepted" -> "open_store"
      [] k \in {"Denied", "Cancelled"} -> "AccessDenied"
      [] k = "Unhandled" -> "UnhandledResponse"
      [] k = "ControlAcknowledged" ->
            IF registered_callbacks # << >> THEN "open_callback" ELSE "open_store"

\* The value of open() on its else branch: self.sock = None ; return True
ElseResult == "True"

\* open(): the handshake on the local socket: socket.socket, sock.connect,
\* sock.send (either may raise socket.error) and response =
\* self._read_response(sock, True), with the branch the response selects.
OpenHandshake(c) ==
    /\ call[c].pc = "open_connect"
    /\ \/ OpenExcept(c, "ConnectError")
       \/ /\ \E s \in Socks : sockState[s] = "fresh"
          /\ \/ /\ call' = [call EXCEPT ![c].pc = "done", ![c].s = None,
                                ![c].term = "SendError",
                                ![c].res = IF paired THEN "False" ELSE "RuntimeError"]
                /\ sock' = IF paired THEN None ELSE sock
                /\ sockState' = [sockState EXCEPT ![FreshSock] = "open"]
                /\ UNCHANGED paired
             \/ \E frames \in Scripts :
                   LET r == ReadResponse(frames, 1)
                       to == OpenAfter(r.k)
                       seen == [call[c] EXCEPT
                                   !.term = r.k,
                                   !.waited = LeadingPending(frames) > 0,
                                   !.unread = LeadingPending(frames) + 1 - r.n]
                   IN
                   /\ r.k # "Waiting"
                   /\ sockState' = [sockState EXCEPT ![FreshSock] = "open"]
                   /\ paired' = IF r.k = "Accepted" THEN TRUE ELSE paired
                   /\ sock' = IF to = "open_else" THEN None ELSE sock
                   /\ call' = [call EXCEPT ![c] =
                         CASE to \in {"AccessDenied", "UnhandledResponse"} ->
                                 [seen EXCEPT !.pc = "done", !.res = to]
                           [] to = "open_else" ->
                                 [seen EXCEPT !.pc = "done", !.res = ElseResult]
                           [] OTHER -> [seen EXCEPT !.pc = to, !.s = FreshSock]]
    /\ UNCHANGED <<calls, thread, loop_event, receive_lock, receive_event,
                   registered_callbacks, worker>>

\* _read_response called by open(): self._registered_callbacks[0]() ; an
\* IndexError ends in the bare except and open() takes its else branch.
OpenCallback(c) ==
    /\ call[c].pc = "open_callback"
    /\ IF registered_callbacks = << >>
       THEN Finish(c, ElseResult) /\ sock' = None /\ UNCHANGED receive_event
       ELSE Goto(c, "open_store") /\ receive_event' = TRUE /\ UNCHANGED sock
    /\ UNCHANGED <<calls, thread, loop_event, receive_lock, registered_callbacks,
                   paired, sockState, worker>>

\* open(): self.sock = sock
OpenStore(c) ==
    /\ call[c].pc = "open_store"
    /\ sock' = call[c].s
    /\ Goto(c, "open_thread")
    /\ UNCHANGED <<calls, thread, loop_event, receive_lock, receive_event,
                   registered_callbacks, paired, sockState, worker>>

\* open(): self._thread = threading.Thread(target=self.loop)
OpenThread(c) ==
    /\ call[c].pc = "open_thread"
    /\ thread' = call[c].s
    /\ Goto(c, "open_start")
    /\ UNCHANGED <<calls, sock, loop_event, receive_lock, receive_event,
                   registered_callbacks, paired, sockState, worker>>

\* open(): self._thread.start() ; return True.  start() is called on whatever
\* self._thread holds now: None raises AttributeError, a thread that was
\* started already raises RuntimeError.
OpenStart(c) ==
    /\ call[c].pc = "open_start"
    /\ IF thread = None
       THEN Finish(c, "AttributeError") /\ UNCHANGED worker
       ELSE IF worker[thread].pc # "none"
       THEN Finish(c, "RuntimeError") /\ UNCHANGED worker
       ELSE /\ worker' = [worker EXCEPT ![thread].pc = "while"]
            /\ Finish(c, "True")
    /\ UNCHANGED <<calls, sock, thread, loop_event, receive_lock, receive_event,
                   registered_callbacks, paired, sockState>>

\* ----------------------------------------------------------------- close()
\* close(): if self._thread is not None
CloseCheck(c) ==
    /\ call[c].pc = "close_check"
    /\ IF thread # None THEN Goto(c, "close_set") ELSE Finish(c, "None")
    /\ UNCHANGED <<calls, sock, thread, loop_event, receive_lock, receive_event,
                   registered_callbacks, paired, sockState, worker>>

\* close(): self._loop_event.set()
CloseSet(c) ==
    /\ call[c].pc = "close_set"
    /\ loop_event' = TRUE
    /\ Goto(c, "close_shutdown")
    /\ UNCHANGED <<calls, sock, thread, receive_lock, receive_event,
                   registered_callbacks, paired, sockState, worker>>

\* close(): self.sock.shutdown(socket.SHUT_RDWR) ; self.sock.close() ;
\* self._thread.join(2.0).  On None the AttributeError leaves close(); a
\* socket.error of shutdown (closed or disconnected socket) is caught and
\* skips the close; join returns when the worker ended or after 2 seconds.
CloseShutdown(c) ==
    /\ call[c].pc = "close_shutdown"
    /\ IF sock = None
       THEN Finish(c, "AttributeError") /\ UNCHANGED sockState
       ELSE /\ Finish(c, IF thread = None THEN "AttributeError" ELSE "None")
            /\ \/ /\ sockState[sock] = "open"
                  /\ sockState' = [sockState EXCEPT ![sock] = "closed"]
               \/ UNCHANGED sockState
    /\ UNCHANGED <<calls, sock, thread, loop_event, receive_lock, receive_event,
                   registered_callbacks, paired, worker>>

\* --------------------------------------------------------------- control()
\* control() returns r: to the power setter's polling loop, or to its caller.
Return(c, r) ==
    IF call[c].op = "power_off"
    THEN call' = [call EXCEPT ![c].pc = "power_poll"]
    ELSE Finish(c, r)

\* control(): if self.sock is None: return False
ControlCheck(c) ==
    /\ call[c].pc = "control_check"
    /\ IF sock = None THEN Return(c, "False") ELSE Goto(c, "control_send")
    /\ UNCHANGED <<calls, sock, thread, loop_event, receive_lock, receive_event,
                   registered_callbacks, paired, sockState, worker>>

\* Mutant of LockAfterSend: the with block ends after the send, so that the
\* wait runs outside the lock.
LockReleasedAfterSend(c) == "free"

\* The holder of self._receive_lock once send() has returned: the with block
\* extends over the wait and the remove.
LockAfterSend(c) == c

\* control(): with self._receive_lock: self._registered_callbacks +=
\* [callback] ; self._receive_event.clear() ; self.sock.send(packet).  On
\* None the AttributeError, on a dead socket the socket.error leave control()
\* through the with block, which releases the lock; the callback stays
\* registered.
ControlSend(c) ==
    /\ call[c].pc = "control_send"
    /\ receive_lock = "free"
    /\ registered_callbacks' = Append(registered_callbacks, c)
    /\ receive_event' = FALSE
    /\ IF sock = None
       THEN Finish(c, "AttributeError") /\ UNCHANGED receive_lock
       ELSE \/ /\ sockState[sock] = "open"
               /\ call' = [call EXCEPT
                     ![c].pc = "control_wait",
                     ![c].sent = @ + 1,
                     ![c].early = \E w \in Socks : worker[w].pc = "callback"]
               /\ receive_lock' = LockAfterSend(c)
            \/ Finish(c, "SocketError") /\ UNCHANGED receive_lock
    /\ UNCHANGED <<calls, sock, thread, loop_event, paired, sockState, worker>>

\* control(): self._receive_event.wait(self._key_interval) ends when the event
\* is set or after the interval.
ControlWait(c) ==
    /\ call[c].pc = "control_wait"
    /\ call' = [call EXCEPT ![c].pc = "control_remove",
                            ![c].term = IF receive_event THEN "signalled"
                                        ELSE "timeout"]
    /\ UNCHANGED <<calls, sock, thread, loop_event, receive_lock, receive_event,
                   registered_callbacks, paired, sockState, worker>>

\* control(): self._registered_callbacks.remove(callback) ; the with block ends.
ControlRemove(c) ==
    /\ call[c].pc = "control_remove"
    /\ registered_callbacks' = Remove(registered_callbacks, c)
    /\ receive_lock' = IF receive_lock = c THEN "free" ELSE receive_lock
    /\ Return(c, "None")
    /\ UNCHANGED <<calls, sock, thread, loop_event, receive_event, paired, sockState,
                   worker>>

\* ------------------------------------------------------------------- power
\* The power property: self.sock is not None
power == sock # None

\* power setter, value False: while self.power: event.wait(2.0)
PowerPoll(c) ==
    /\ call[c].pc = "power_poll"
    /\ ~power
    /\ Finish(c, "None")
    /\ UNCHANGED <<calls, sock, thread, loop_event, receive_lock, receive_event,
                   registered_callbacks, paired, sockState, worker>>

\* ---------------------------------------------------------------- _connect
\* _connect(): self.config.copy(config), then self.open()
ConnectCopy(c) ==
    /\ call[c].pc = "connect_copy"
    /\ Goto(c, "open_check")
    /\ UNCHANGED <<calls, sock, thread, loop_event, receive_lock, receive_event,
                   registered_callbacks, paired, sockState, worker>>

\* ------------------------------------------------------------ calls arrive
\* open() is called: its first statement is the test of self.sock.
StartOpen(c) ==
    /\ Idle(c)
    /\ IF sock # None
       THEN call' = [call EXCEPT ![c] =
                [IdleCall EXCEPT !.op = "open", !.res = "None",
                                 !.paired0 = paired]]
       ELSE Enter(c, "open", "open_connect")
    /\ UNCHANGED <<sock, thread, loop_event, receive_lock, receive_event,
                   registered_callbacks, paired, sockState, worker>>

\* close() is called.
StartClose(c) ==
    /\ Idle(c)
    /\ Enter(c, "close", "close_check")
    /\ UNCHANGED <<sock, thread, loop_event, receive_lock, receive_event,
                   registered_callbacks, paired, sockState, worker>>

\* control(key) is called.
StartControl(c) ==
    /\ Idle(c)
    /\ Enter(c, "control", "control_check")
    /\ UNCHANGED <<sock, thread, loop_event, receive_lock, receive_event,
                   registered_callbacks, paired, sockState, worker>>

\* The power setter is called.  value True: only logs.  value False: if
\* self.power, self.control('KEY_POWEROFF') and then the polling loop.
StartPower(c, value) ==
    /\ Idle(c)
    /\ IF value
       THEN Enter(c, "power_on", "done")
       ELSE IF power
       THEN Enter(c, "power_off", "control_check")
       ELSE Enter(c, "power_off", "done")
    /\ UNCHANGED <<sock, thread, loop_event, receive_lock, receive_event,
                   registered_callbacks, paired, sockState, worker>>

\* The discovery service calls _connect(config, power).
StartConnect(c, pw) ==
    /\ Idle(c)
    /\ IF pw /\ thread = None
       THEN Enter(c, "connect_on", "connect_copy")
       ELSE IF ~pw
       THEN Enter(c, "connect_off", "close_check")
       ELSE Enter(c, "connect_on", "done")
    /\ UNCHANGED <<sock, thread, loop_event, receive_lock, receive_event,
                   registered_callbacks, paired, sockState, worker>>

\* A call is made while the budget of calls lasts.
Budget == calls < MaxCalls /\ calls' = calls + 1

\* Any interleaving of the caller threads and the workers.
Next ==
    \/ \E c \in Callers : Budget /\ StartOpen(c)
    \/ \E c \in Callers : Budget /\ StartClose(c)
    \/ \E c \in Callers : Budget /\ StartControl(c)
    \/ \E c \in Callers, value \in BOOLEAN : Budget /\ StartPower(c, value)
    \/ \E c \in Callers, pw \in BOOLEAN : Budget /\ StartConnect(c, pw)
    \/ \E c \in Callers : OpenCheck(c)
    \/ \E c \in Callers : OpenHandshake(c)
    \/ \E c \in Callers : OpenCallback(c)
    \/ \E c \in Callers : OpenStore(c)
    \/ \E c \in Callers : OpenThread(c)
    \/ \E c \in Callers : OpenStart(c)
    \/ \E c \in Callers : CloseCheck(c)
    \/ \E c \in Callers : CloseSet(c)
    \/ \E c \in Callers : CloseShutdown(c)
    \/ \E c \in Callers : ControlCheck(c)
    \/ \E c \in Callers : ControlSend(c)
    \/ \E c \in Callers : ControlWait(c)
    \/ \E c \in Callers : ControlRemove(c)
    \/ \E c \in Callers : PowerPoll(c)
    \/ \E c \in Callers : ConnectCopy(c)
    \/ \E w \in Socks : LoopWhile(w)
    \/ \E w \in Socks : LoopCall(w)
    \/ \E w \in Socks : LoopRecv(w)
    \/ \E w \in Socks : LoopCallback(w)
    \/ \E w \in Socks : LoopExit(w)
    \/ \E w \in Socks : LoopClear(w)

Spec == Init /\ [][Next]_vars

\* Calls made one at a time: a call starts when no other call is in progress
\* and no worker is tearing its connection down; only control() calls may
\* overlap each other.  The workers run concurrently with the calls.
Settled == \A w \in Socks : worker[w].pc \notin {"exit", "clear"}

Alone(c) == Settled /\ \A d \in Callers \ {c} : Idle(d)

Among(c) == Settled /\ \A d \in Callers \ {c} : Idle(d) \/ call[d].op = "control"

NextSeq ==
    \/ \E c \in Callers : Budget /\ Alone(c) /\ StartOpen(c)
    \/ \E c \in Callers : Budget /\ Alone(c) /\ StartClose(c)
    \/ \E c \in Callers : Budget /\ Among(c) /\ StartControl(c)
    \/ \E c \in Callers, value \in BOOLEAN :
          Budget /\ Alone(c) /\ StartPower(c, value)
    \/ \E c \in Callers, pw \in BOOLEAN :
          Budget /\ Alone(c) /\ StartConnect(c, pw)
    \/ \E c \in Callers : OpenCheck(c)
    \/ \E c \in Callers : OpenHandshake(c)
    \/ \E c \in Callers : OpenCallback(c)
    \/ \E c \in Callers : OpenStore(c)
    \/ \E c \in Callers : OpenThread(c)
    \/ \E c \in Callers : OpenStart(c)
    \/ \E c \in Callers : CloseCheck(c)
    \/ \E c \in Callers : CloseSet(c)
    \/ \E c \in Callers : CloseShutdown(c)
    \/ \E c \in Callers : ControlCheck(c)
    \/ \E c \in Callers : ControlSend(c)
    \/ \E c \in Callers : ControlWait(c)
    \/ \E c \in Callers : ControlRemove(c)
    \/ \E c \in Callers : PowerPoll(c)
    \/ \E c \in Callers : ConnectCopy(c)
    \/ \E w \in Socks : LoopWhile(w)
    \/ \E w \in Socks : LoopCall(w)
    \/ \E w \in Socks : LoopRecv(w)
    \/ \E w \in Socks : LoopCallback(w)
    \/ \E w \in Socks : LoopExit(w)
    \/ \E w \in Socks : LoopClear(w)

SpecSeq == Init /\ [][NextSeq]_vars

\* ================================================================== claims
\* Calls of open(), made directly or by _connect.
Opens == {"open", "connect_on"}

\* Caller c's call ends in this step.
Ends(c) == call[c].pc # "done" /\ call'[c].pc = "done"

\* C1: when the first terminal frame of the handshake is the access-granted
\* payload, open() returns True, config.paired is true, self.sock holds the
\* socket (power is true) and exactly one worker was started: the one
\* self._thread names.
C1_GrantedOpens ==
    [][\A c \in Callers :
          (call[c].op \in Opens /\ Ends(c) /\ call'[c].term = "Accepted") =>
              /\ call'[c].res = "True"
              /\ paired'
              /\ power'
              /\ sock' = call[c].s
              /\ thread' = sock'
              /\ worker[sock'].pc = "none"
              /\ worker'[sock'].pc = "while"
              /\ \A w \in Socks \ {sock'} : worker'[w] = worker[w]]_vars

C1_Witness ==
    \E c \in Callers :
        /\ call[c].op \in Opens /\ call[c].pc = "done"
        /\ call[c].term = "Accepted" /\ call[c].res = "True"
        /\ ~call[c].paired0 /\ paired
        /\ power /\ thread = sock /\ worker[sock].pc = "while"

\* C2: when the first terminal frame of the handshake is the access-denied
\* payload, open() raises AccessDenied, and config.paired, self.sock (still
\* None, power false) and the workers are as they were when it was called.
C2_DeniedRaises ==
    [][\A c \in Callers :
          (call[c].op \in Opens /\ Ends(c) /\ call'[c].term = "Denied") =>
              /\ call'[c].res = "AccessDenied"
              /\ paired' = call[c].paired0
              /\ sock' = None
              /\ ~power'
              /\ thread' = thread
              /\ worker' = worker]_vars

C2_Witness ==
    \E c \in Callers :
        /\ call[c].op \in Opens /\ call[c].pc = "done"
        /\ call[c].term = "Denied" /\ call[c].res = "AccessDenied"
        /\ ~paired /\ ~power /\ \A w \in Socks : worker[w].pc = "none"

\* C3: power is true exactly when self.sock holds a socket that has been
\* neither shut down nor closed.
C3_PowerIffLive == power <=> (sock # None /\ sockState[sock] = "open")

\* The callers whose control() call waits for its completion signal.
Waiting == {c \in Callers : call[c].pc = "control_wait"}

\* The place of caller c's latest registration in the pending-callback list.
Pos(c) ==
    LET at == {i \in 1..Len(registered_callbacks) : registered_callbacks[i] = c}
    IN  IF at = {} THEN 0 ELSE CHOOSE i \in at : \A j \in at : j <= i

\* C4: a command-acknowledged frame that sets the completion signal completes
\* the wait of at most one control() call, and a wait that the signal
\* completes is that of the oldest registered call still waiting: no call
\* registered before it is waiting.
C4_OldestFirst ==
    [][/\ (~receive_event /\ receive_event') => Cardinality(Waiting) <= 1
       /\ \A c \in Callers :
             (c \in Waiting /\ call'[c].term = "signalled") =>
                 \A d \in Waiting \ {c} : Pos(c) < Pos(d)]_vars

C4_Witness ==
    \E a, b \in Callers :
        /\ a # b
        /\ call[a].op = "control" /\ call[a].pc = "done"
        /\ call[a].term = "signalled"
        /\ call[b].op = "control" /\ call[b].pc = "control_remove"
        /\ call[b].term = "signalled"

\* C5: when a worker stops, for whatever reason, the socket is closed,
\* self.sock and self._thread are None and power is false.
C5_StoppedIsTornDown ==
    [][\A w \in Socks :
          (worker[w].pc \notin {"finished", "crashed"}
              /\ worker'[w].pc \in {"finished", "crashed"}) =>
                 /\ sock' = None
                 /\ thread' = None
                 /\ ~power'
                 /\ sockState'[w] = "closed"]_vars

\* C6: control() on a connection whose handle is None when the frame is to be
\* sent returns False, sends nothing and leaves the pending-callback list as
\* it was.
C6_DeadControlReturnsFalse ==
    [][\A c \in Callers :
          (call[c].pc = "control_send" /\ call'[c].pc # "control_send"
              /\ sock = None) =>
                 /\ call'[c].res = "False"
                 /\ call'[c].sent = 0
                 /\ registered_callbacks' = registered_callbacks]_vars

\* C7: a power = False assignment that found power true and has returned has
\* sent exactly one KEY_POWEROFF frame, and power is false when it returns.
C7_PowerOffSendsOne ==
    \A c \in Callers :
        (call[c].op = "power_off" /\ call[c].pc = "done" /\ call[c].res = "None")
            => call[c].sent = 1

\* C8: after n >= 1 pending-approval frames and a terminal frame, open() has
\* read exactly those n + 1 frames when it ends, and it ends as the terminal
\* frame says: True after access granted, AccessDenied after access denied or
\* cancelled.
C8_PendingThenTerminal ==
    \A c \in Callers :
        (call[c].op \in Opens /\ call[c].waited) =>
            /\ call[c].unread = 0
            /\ call[c].term \notin {"none", "Waiting"}
            /\ call[c].pc = "done" =>
                  /\ call[c].term = "Accepted" => call[c].res = "True"
                  /\ call[c].term \in {"Denied", "Cancelled"} =>
                        call[c].res = "AccessDenied"

C8_Witness ==
    \E c \in Callers :
        /\ call[c].op \in Opens /\ call[c].pc = "done" /\ call[c].waited
        /\ call[c].term = "Accepted" /\ call[c].res = "True"
        /\ call[c].unread = 0 /\ power

\* C9: with config.paired false, a transport error while connecting, sending
\* the handshake or reading the first response makes open() raise, with no
\* socket stored and no worker started.
C9_UnpairedErrorRaises ==
    \A c \in Callers :
        (call[c].op \in Opens /\ call[c].pc = "done" /\ ~call[c].paired0
            /\ call[c].term \in {"ConnectError", "SendError", "Error"}) =>
               call[c].res = "RuntimeError"

\* C10: with config.paired true at the call, open() never raises, and on a
\* transport error it returns False.
C10_PairedNeverRaises ==
    \A c \in Callers :
        (call[c].op \in Opens /\ call[c].pc = "done" /\ call[c].paired0) =>
            /\ call[c].res \in {"True", "False", "None"}
            /\ call[c].term \in {"ConnectError", "SendError", "Error"} =>
                  call[c].res = "False"

\* C11: a worker that has read an empty response reads no more: its next
\* steps are the teardown, and the step it takes from the break makes
\* self.sock None and power false.
C11_EmptyReadTearsDown ==
    [][\A w \in Socks :
          /\ worker'[w].why = "Closed" =>
                worker'[w].pc \in {"exit", "clear", "finished"}
          /\ (worker[w].why = "Closed" /\ worker[w].pc = "exit"
                 /\ worker'[w] # worker[w]) =>
                    /\ worker'[w].pc = "clear"
                    /\ sock' = None
                    /\ ~power']_vars

C11_Witness ==
    \E w \in Socks :
        /\ worker[w].why = "Closed" /\ worker[w].pc = "clear"
        /\ sockState[w] = "closed" /\ sock = None /\ ~power

\* The statements of control().
ControlPcs == {"control_check", "control_send", "control_wait", "control_remove"}

\* C12: the pending-callback list is empty whenever no control() call is in
\* progress: every call that registered a callback has removed it.
C12_DeregisteredAtEnd ==
    (\A c \in Callers : call[c].pc \notin ControlPcs) =>
        registered_callbacks = << >>

\* C13: open() called while self.sock is not None returns success (True, the
\* value of a successful open) at once and changes nothing: no socket is
\* opened, no worker started, and self.sock, self._thread, config.paired and
\* the pending-callback list are as before.
C13_ConnectedOpenIsNoOp ==
    [][\A c \in Callers :
          (calls' # calls /\ sock # None /\ call'[c].op = "open"
              /\ call'[c].pc = "done" /\ call'[c].term = "none") =>
                 /\ call'[c].res = "True"
                 /\ UNCHANGED <<sock, thread, paired, registered_callbacks,
                                sockState, worker>>]_vars

\* The open sockets that the object, a call or a worker holds.
Held ==
    {s \in Socks : /\ sockState[s] = "open"
                   /\ \/ sock = s
                      \/ \E c \in Callers : call[c].s = s
                      \/ \E w \in Socks : worker[w].rs = s}

\* C14: the object has at most one open socket and at most one running
\* worker.
C14_AtMostOne == Cardinality(Held) <= 1 /\ Cardinality(Running) <= 1

\* C15: a _connect(config, True) that arrives while no worker is running
\* copies the config and calls open(), which attempts the handshake: the call
\* does not end without having tried to connect.
C15_DiscoveredReopens ==
    \A c \in Callers :
        (call[c].op = "connect_on" /\ call[c].stopped0 /\ call[c].pc = "done")
            => call[c].term # "none"

\* C16: the worker's teardown does not close a socket that is closed
\* already, the worker does not read from a socket that close() has shut down
\* or closed (or from None), and close() does not shut down a handle that the
\* worker has set to None.
C16_CloseLoopDiscipline ==
    [][/\ \A w \in Socks :
             /\ (worker[w].pc = "exit" /\ worker'[w].pc = "clear" /\ sock # None)
                    => sockState[sock] # "closed"
             /\ (worker[w].pc = "recv" /\ worker'[w].pc # "recv") =>
                    /\ worker[w].rs # None
                    /\ sockState[worker[w].rs] = "open"
       /\ \A c \in Callers :
             (call[c].pc = "close_shutdown" /\ call'[c].pc = "done")
                => sock # None]_vars

\* C17: self._receive_lock covers the registration and the send but not the
\* wait: a control() call that waits for its acknowledgement does not hold
\* the lock, so that another call can register and send meanwhile.
C17_WaitOutsideLock ==
    \A c \in Callers : call[c].pc = "control_wait" => receive_lock # c

\* C18: open() goes on to store the socket and start the worker only when
\* the handshake read ended on the access-granted frame, and whenever
\* self.sock is not None config.paired is true.
C18_OnlyGrantedConnects ==
    /\ sock # None => paired
    /\ \A c \in Callers :
          call[c].pc \in {"open_store", "open_thread", "open_start"} =>
              call[c].term = "Accepted"

\* C19: a control() call whose wait ended on the signal was signalled by an
\* acknowledgement read after the call sent its frame, never by one that a
\* worker had read before.
C19_OnlyLaterAck ==
    \A c \in Callers : call[c].term = "signalled" => ~call[c].early

\* C20: whenever no worker is running self._loop_event is clear, so that a
\* worker started later does not find the flag of an earlier close() set.
C20_FlagClearWhenStopped == Running = {} => ~loop_event

====
